---- MODULE Spec2Model ----
(***************************************************************************)
(* Model of monitoring-demo/app/main.py: the monitor_requests middleware,  *)
(* the four demo endpoints, the LokiFormatter log emitter, the three       *)
(* Prometheus instruments and the spans opened around each operation.      *)
(*                                                                         *)
(* Abstractions.  Wall-clock time is not modelled: a latency observation   *)
(* is recorded without its value.  The identifiers a span gets from the    *)
(* tracer are a fixed table of distinct values per request.  Each endpoint *)
(* runs as one step: its only delay is the blocking time.sleep, which does *)
(* not yield to the event loop; the middleware suspends at                 *)
(* `await call_next(request)`, which is where requests interleave.         *)
(* An HTTPException raised by an endpoint reaches the middleware's         *)
(* `except HTTPException` clause, as that clause is written to expect.     *)
(* The span context manager is modelled by what the program relies on:     *)
(* the span is ended when the `with` block is left, on every exit.         *)
(* Every request comes over a connection with a known peer address         *)
(* (request.client is set), as it is under the server the program starts.  *)
(***************************************************************************)
EXTENDS Integers, Sequences, FiniteSets, Bags, TLC

\* ------------------------------------------------------------------ bounds
\* Number of requests in flight concurrently.
NumRequests == 2
\* Largest number of caller-supplied extra fields in one log call.
MaxExtras == 2
\* Latest time (in seconds) at which a log record is created.
MaxCreated == 1

\* ------------------------------------------------------- program constants
NsPerSec == 1000000000
TraceIdWidth == 32
SpanIdWidth == 16

Requests == 1..NumRequests

\* ------------------------------------------------------------ JSON values
\* A value is tagged with its type, so that values of different types compare unequal.
JStr(s) == <<"str", s>>
JInt(n) == <<"int", n>>
JNull == <<"null", 0>>
EmptyDict == [k \in {} |-> JNull]

\* dict.update(other): keys of `other` are added, and overwrite.
DictUpdate(d, other) ==
    [k \in DOMAIN d \cup DOMAIN other |-> IF k \in DOMAIN other THEN other[k] ELSE d[k]]

\* -------------------------------------------------- format(n, '0<w>x')
HexDigit(d) == SubSeq("0123456789abcdef", d + 1, d + 1)

RECURSIVE HexOf(_)
HexOf(n) == IF n < 16 THEN HexDigit(n) ELSE HexOf(n \div 16) \o HexDigit(n % 16)

RECURSIVE ZeroPad(_, _)
ZeroPad(s, w) == IF Len(s) >= w THEN s ELSE ZeroPad("0" \o s, w)

\* Lowercase hexadecimal, zero-padded on the left to at least w characters.
FormatHex(n, w) == ZeroPad(HexOf(n), w)

\* ------------------------------------------------------ logging.LogRecord
\* The attributes every LogRecord has before the caller's extras are added.
StdAttrs ==
    {"name", "msg", "args", "levelname", "levelno", "pathname", "filename",
     "module", "exc_info", "exc_text", "stack_info", "lineno", "funcName",
     "created", "msecs", "relativeCreated", "thread", "threadName",
     "processName", "process"}

LevelNo(level) ==
    CASE level = "INFO" -> 20 [] level = "WARNING" -> 30 [] level = "ERROR" -> 40

\* logger = logging.getLogger(__name__)
LoggerName == "app.main"

StdRecord(level, msg, func, lineno, created) ==
    [k \in StdAttrs |->
        CASE k = "name" -> JStr(LoggerName)
          [] k = "msg" -> JStr(msg)
          [] k = "levelname" -> JStr(level)
          [] k = "levelno" -> JInt(LevelNo(level))
          [] k = "module" -> JStr("main")
          [] k = "filename" -> JStr("main.py")
          [] k = "funcName" -> JStr(func)
          [] k = "lineno" -> JInt(lineno)
          [] k = "created" -> JInt(created)
          [] OTHER -> JNull]

\* logger.<level>(msg, extra=extra): the record the logger hands to its handler.
\* The logging module refuses (KeyError) an extra named "message" or "asctime"
\* or named like an attribute the record already has; every other extra becomes
\* an attribute of the record.
MakeRecord(level, msg, func, lineno, created, extra) ==
    IF \E k \in DOMAIN extra : k \in {"message", "asctime"} \/ k \in StdAttrs
    THEN [ok |-> FALSE, dict |-> EmptyDict]
    ELSE [ok |-> TRUE,
          dict |-> DictUpdate(StdRecord(level, msg, func, lineno, created), extra)]

\* ---------------------------------------------------------- LokiFormatter
ReservedFields == {"time", "level", "message", "logger", "module", "function", "line"}

\* log_data as built first: the seven reserved fields, from the record itself.
ReservedData(rec) ==
    [k \in ReservedFields |->
        CASE k = "time" -> JInt(rec["created"][2] * NsPerSec)
          [] k = "level" -> rec["levelname"]
          [] k = "message" -> rec["msg"]
          [] k = "logger" -> rec["name"]
          [] k = "module" -> rec["module"]
          [] k = "function" -> rec["funcName"]
          [] k = "line" -> rec["lineno"]]

\* The record attributes that format() does not copy into extra_data.
FormatExcluded ==
    {"args", "asctime", "created", "exc_info", "exc_text", "filename",
     "funcName", "levelname", "levelno", "lineno", "module", "msecs",
     "message", "msg", "name", "pathname", "process", "processName",
     "relativeCreated", "stack_info", "thread", "threadName"}

ExtraData(rec) == [k \in {a \in DOMAIN rec : a \notin FormatExcluded} |-> rec[k]]

\* LokiFormatter.format: the JSON object of one log line.
Format(rec) ==
    LET log_data == ReservedData(rec)
        extra_data == ExtraData(rec)
    IN  IF DOMAIN extra_data # {} THEN DictUpdate(log_data, extra_data) ELSE log_data

\* One logging call, through the logger and its only handler: either the
\* KeyError of the logging module, or the line LokiFormatter.format returns.
Emit(level, msg, func, lineno, created, extra) ==
    LET made == MakeRecord(level, msg, func, lineno, created, extra)
    IN  IF made.ok
        THEN [kind |-> "line", line |-> Format(made.dict)]
        ELSE [kind |-> "KeyError", line |-> EmptyDict]

\* ------------------------------------------------------------------ spans
NoSpan ==
    [state |-> "none", name |-> "", trace_id |-> 0, span_id |-> 0,
     attrs |-> EmptyDict, status |-> <<"UNSET", "">>, exceptions |-> <<>>, ends |-> 0]

\* The identifiers the tracer gives the spans of request r: distinct per request,
\* the endpoint's span in the trace of the request's span.
TraceIdOf(r) == 43981 * r
SpanIdOf(r, which) == 4096 * r + (IF which = "request" THEN 1 ELSE 2)

\* tracer.start_as_current_span(name): entering the `with` block.
StartSpan(r, which, name) ==
    [NoSpan EXCEPT !.state = "open", !.name = name,
                   !.trace_id = TraceIdOf(r), !.span_id = SpanIdOf(r, which)]

SetAttribute(span, key, value) == [span EXCEPT !.attrs = DictUpdate(@, key :> value)]
RecordException(span, exc) == [span EXCEPT !.exceptions = Append(@, exc)]
SetStatus(span, msg) == [span EXCEPT !.status = <<"ERROR", msg>>]

\* Faulty variant: leaving the block does not end the span.
WithExitLeavesOpen(span) == span

\* Leaving the `with` block of a span, by return or by exception: the span ends.
WithExit(span) == [span EXCEPT !.state = "closed", !.ends = @ + 1]

\* The span processor's queue gets every span that has just ended.
OnEnd(queue, before, after) ==
    IF after.ends > before.ends THEN queue (+) SetToBag({after.span_id}) ELSE queue

\* ------------------------------------------------------------ instruments
\* counter.labels(...).inc() / histogram.labels(...).observe(v): the child of a
\* label tuple is created on first use; a sample adds one to it.
Inc(counter, label) ==
    IF label \in DOMAIN counter
    THEN [counter EXCEPT ![label] = @ + 1]
    ELSE counter @@ (label :> 1)

RECURSIVE SumOver(_, _)
SumOver(counter, labels) ==
    IF labels = {} THEN 0
    ELSE LET l == CHOOSE x \in labels : TRUE
         IN  counter[l] + SumOver(counter, labels \ {l})

\* The sum of an instrument's samples over all its label tuples.
Total(counter) == SumOver(counter, DOMAIN counter)

\* --------------------------------------------------------------- outcomes
NoResult == [kind |-> "none", status |-> 0, detail |-> ""]
Response(status) == [kind |-> "response", status |-> status, detail |-> ""]
HTTPException(status, detail) == [kind |-> "HTTPException", status |-> status, detail |-> detail]
\* Any exception that is not an HTTPException; detail is str(e).
Fault(msg) == [kind |-> "Exception", status |-> 0, detail |-> msg]

\* ------------------------------------------------------------- statements
\* The observability statements of a block of code, in program order.
IncRequestCount(label) == [op |-> "REQUEST_COUNT.inc", kind |-> "metric", arg |-> label]
ObserveLatency(label) == [op |-> "REQUEST_LATENCY.observe", kind |-> "metric", arg |-> label]
IncErrorCount(label) == [op |-> "ERROR_COUNT.inc", kind |-> "metric", arg |-> label]
SetAttr(key, value) == [op |-> "span.set_attribute", kind |-> "span", arg |-> <<key, value>>]
RecExc(exc) == [op |-> "span.record_exception", kind |-> "span", arg |-> exc]
SetStat(msg) == [op |-> "span.set_status", kind |-> "span", arg |-> msg]
LogStmt(level, msg, func, lineno, extra) ==
    [op |-> "log", kind |-> "log",
     arg |-> [level |-> level, msg |-> msg, func |-> func, lineno |-> lineno, extra |-> extra]]

\* One statement, run by `who` against the instruments, the current span and
\* the request's trace of observability events.
ExecStmt(st, stmt, who) ==
    \* (every log record of the request pipeline is created at time 1)
    LET ev(out) == [who |-> who, kind |-> stmt.kind, op |-> stmt.op, arg |-> stmt.arg,
                    spanState |-> st.span.state, out |-> out]
        base == [st EXCEPT !.events = Append(@, ev(EmptyDict))]
    IN  CASE stmt.op = "REQUEST_COUNT.inc" -> [base EXCEPT !.rc = Inc(@, stmt.arg)]
          [] stmt.op = "REQUEST_LATENCY.observe" -> [base EXCEPT !.rl = Inc(@, stmt.arg)]
          [] stmt.op = "ERROR_COUNT.inc" -> [base EXCEPT !.ec = Inc(@, stmt.arg)]
          [] stmt.op = "span.set_attribute" ->
                [base EXCEPT !.span = SetAttribute(@, stmt.arg[1], stmt.arg[2])]
          [] stmt.op = "span.record_exception" ->
                [base EXCEPT !.span = RecordException(@, stmt.arg)]
          [] stmt.op = "span.set_status" -> [base EXCEPT !.span = SetStatus(@, stmt.arg)]
          [] stmt.op = "log" ->
                LET a == stmt.arg
                    e == Emit(a.level, a.msg, a.func, a.lineno, 1, a.extra)
                IN  [st EXCEPT !.events = Append(@, ev(e.line))]

RECURSIVE Exec(_, _, _)
Exec(st, stmts, who) ==
    IF stmts = <<>> THEN st
    ELSE Exec(ExecStmt(st, Head(stmts), who), Tail(stmts), who)

\* --------------------------------------------------------------- requests
Paths == {"/", "/health", "/api/data", "/api/error-test"}
ErrorTypes == {"value_error", "key_error", "division_error"}
\* The `type` query parameter: absent, one of the three types, or anything else.
Absent == "<absent>"
TypeParams == {Absent} \cup ErrorTypes \cup {"bogus"}
\* What the downstream chain can raise besides an HTTPException.
FaultMessages == {"database is down"}

Request(path, type, client) ==
    [method |-> "GET", path |-> path, type |-> type, client |-> client,
     user_agent |-> "python-requests"]
NoRequest == Request("", Absent, FALSE)

Url(rq) == IF rq.type = Absent THEN rq.path ELSE rq.path \o "?type=" \o rq.type
ClientHost == "127.0.0.1"
\* processing_time and round(processing_time, 3): the values are not modelled.
ProcessingTime == <<"float", "processing_time">>
RoundedTime == <<"float", "round(processing_time, 3)">>

VARIABLES
    pc,              \* where each request's monitor_requests call stands
    request,         \* the request each call was given
    result,          \* what `await call_next(request)` produced: a response or an exception
    final,           \* what monitor_requests returned or raised
    reqSpan,         \* the span monitor_requests opened
    endpointSpan,    \* the span the endpoint opened
    spanQueue,       \* the spans handed to the span processor (a bag of span ids)
    REQUEST_COUNT, REQUEST_LATENCY, ERROR_COUNT,   \* the instruments, by label tuple
    events,          \* per request, the observability statements run for it, in order
    logIn, logOut    \* a logging call made on its own, and what it produced

vars == <<pc, request, result, final, reqSpan, endpointSpan, spanQueue,
          REQUEST_COUNT, REQUEST_LATENCY, ERROR_COUNT, events, logIn, logOut>>
logVars == <<logIn, logOut>>
pipelineVars == <<pc, request, result, final, reqSpan, endpointSpan, spanQueue,
                  REQUEST_COUNT, REQUEST_LATENCY, ERROR_COUNT, events>>

NoLog == [kind |-> "none"]

Init ==
    /\ pc = [r \in Requests |-> "idle"]
    /\ request = [r \in Requests |-> NoRequest]
    /\ result = [r \in Requests |-> NoResult]
    /\ final = [r \in Requests |-> NoResult]
    /\ reqSpan = [r \in Requests |-> NoSpan]
    /\ endpointSpan = [r \in Requests |-> NoSpan]
    /\ spanQueue = EmptyBag
    /\ REQUEST_COUNT = <<>>
    /\ REQUEST_LATENCY = <<>>
    /\ ERROR_COUNT = <<>>
    /\ events = [r \in Requests |-> <<>>]
    /\ logIn = NoLog
    /\ logOut = NoLog

\* The instruments, one span and one request's events, as a block of statements sees them.
Env(r, span) ==
    [rc |-> REQUEST_COUNT, rl |-> REQUEST_LATENCY, ec |-> ERROR_COUNT,
     span |-> span, events |-> events[r]]

\* ------------------------------------------------------- monitor_requests
BeforeCallNext == "monitor_requests:before call_next"
AfterCallNext == "monitor_requests:after call_next"

\* Lines 121-124: the attributes set when the span is opened.
EnterBlock(rq) ==
    <<SetAttr("http.method", JStr(rq.method)), SetAttr("http.url", JStr(Url(rq)))>>
    \o (IF rq.client THEN <<SetAttr("http.client_ip", JStr(ClientHost))>> ELSE <<>>)

\* Lines 147-157: the extra fields of the "Request processed" record.
LogExtra(rq, resp, span) ==
    LET log_extra ==
            [k \in {"method", "endpoint", "status_code", "latency_seconds",
                    "user_agent", "trace_id", "span_id"} |->
                CASE k = "method" -> JStr(rq.method)
                  [] k = "endpoint" -> JStr(rq.path)
                  [] k = "status_code" -> JInt(resp.status)
                  [] k = "latency_seconds" -> RoundedTime
                  [] k = "user_agent" -> JStr(rq.user_agent)
                  [] k = "trace_id" -> JStr(FormatHex(span.trace_id, TraceIdWidth))
                  [] k = "span_id" -> JStr(FormatHex(span.span_id, SpanIdWidth))]
    IN  IF rq.client THEN DictUpdate(log_extra, "ip" :> JStr(ClientHost)) ELSE log_extra

\* Faulty variant: the record is logged before the metrics and the span are updated.
ReturnBlockLogFirst(rq, resp, span) ==
    <<LogStmt("INFO", "Request processed", "log_with_extra", 112, LogExtra(rq, resp, span)),
      IncRequestCount(<<rq.method, rq.path, resp.status>>),
      ObserveLatency(<<rq.method, rq.path>>),
      SetAttr("http.status_code", JInt(resp.status)),
      SetAttr("http.response_time", ProcessingTime)>>

\* Lines 128-159: the statements after a normal return of call_next.
ReturnBlock(rq, resp, span) ==
    <<IncRequestCount(<<rq.method, rq.path, resp.status>>),
      ObserveLatency(<<rq.method, rq.path>>),
      SetAttr("http.status_code", JInt(resp.status)),
      SetAttr("http.response_time", ProcessingTime),
      LogStmt("INFO", "Request processed", "log_with_extra", 112, LogExtra(rq, resp, span))>>

\* Lines 164-175: the statements of `except HTTPException as he`.
HttpExceptionBlock(rq, he, span) ==
    <<IncErrorCount(<<rq.method, rq.path, "http_error">>),
      SetAttr("http.status_code", JInt(he.status)),
      RecExc(he),
      SetStat(he.detail),
      LogStmt("WARNING", "HTTP Error: " \o he.detail, "monitor_requests", 175, EmptyDict)>>

\* Lines 179-189: the statements of `except Exception as e`.
ExceptionBlock(rq, e, span) ==
    <<IncErrorCount(<<rq.method, rq.path, "server_error">>),
      RecExc(e),
      SetStat(e.detail),
      LogStmt("ERROR", "Server Error: " \o e.detail, "monitor_requests", 189, EmptyDict)>>

\* Faulty variant: the classified error is replaced by the generic one.
ReraisedAsGeneric(he) == HTTPException(500, "Internal server error")
\* Faulty variant: the fault's own message is put in the detail.
TranslatedLeaking(e) == HTTPException(500, e.detail)

\* Line 161: return response.
Returned(resp) == resp
\* Line 176: a bare `raise` re-raises the exception being handled.
Reraised(he) == he
\* Line 190: raise HTTPException(status_code=500, detail="Internal server error").
Translated(e) == HTTPException(500, "Internal server error")

\* Lines 118-127: a request arrives; the span is opened and given its first
\* attributes, and the call suspends at `await call_next(request)`.
monitor_requests_enter(r) ==
    /\ pc[r] = "idle"
    /\ \E path \in Paths, type \in TypeParams :
          /\ path # "/api/error-test" => type = Absent
          /\ LET rq == Request(path, type, TRUE)
                 span == StartSpan(r, "request", rq.method \o " " \o rq.path)
                 st == Exec(Env(r, span), EnterBlock(rq), BeforeCallNext)
             IN  /\ request' = [request EXCEPT ![r] = rq]
                 /\ reqSpan' = [reqSpan EXCEPT ![r] = st.span]
                 /\ events' = [events EXCEPT ![r] = st.events]
    /\ pc' = [pc EXCEPT ![r] = "call_next"]
    /\ UNCHANGED <<result, final, endpointSpan, spanQueue,
                   REQUEST_COUNT, REQUEST_LATENCY, ERROR_COUNT, logVars>>

\* The rest of monitor_requests, from the point call_next produced `result[r]`:
\* the block of the branch taken, then the exit of the span's `with` block,
\* then the return or raise.
Resume(r, block, outcome) ==
    LET st == Exec(Env(r, reqSpan[r]), block, AfterCallNext)
        ended == WithExit(st.span)
    IN  /\ pc[r] = "resume"
        /\ REQUEST_COUNT' = st.rc
        /\ REQUEST_LATENCY' = st.rl
        /\ ERROR_COUNT' = st.ec
        /\ events' = [events EXCEPT ![r] = st.events]
        /\ reqSpan' = [reqSpan EXCEPT ![r] = ended]
        /\ spanQueue' = OnEnd(spanQueue, st.span, ended)
        /\ final' = [final EXCEPT ![r] = outcome]
        /\ pc' = [pc EXCEPT ![r] = "done"]
        /\ UNCHANGED <<request, result, endpointSpan, logVars>>

monitor_requests_return(r) ==
    /\ result[r].kind = "response"
    /\ Resume(r, ReturnBlock(request[r], result[r], reqSpan[r]), Returned(result[r]))

monitor_requests_http_exception(r) ==
    /\ result[r].kind = "HTTPException"
    /\ Resume(r, HttpExceptionBlock(request[r], result[r], reqSpan[r]), Reraised(result[r]))

monitor_requests_exception(r) ==
    /\ result[r].kind = "Exception"
    /\ Resume(r, ExceptionBlock(request[r], result[r], reqSpan[r]), Translated(result[r]))

\* -------------------------------------------------------------- endpoints
\* Each endpoint: the statements it runs inside its span, and how it leaves.
\* `fail` is the outcome of the endpoint's `random.random() < p` test.
Root(fail) ==
    IF fail
    THEN [stmts |-> <<IncErrorCount(<<"GET", "/", "simulated_error">>),
                      RecExc("ValueError: Simulated error"),
                      SetStat("Simulated error")>>,
          outcome |-> HTTPException(500, "Simulated server error")]
    ELSE [stmts |-> <<SetAttr("processing_time", ProcessingTime)>>,
          outcome |-> Response(200)]

Health(fail) ==
    IF fail
    THEN [stmts |-> <<IncErrorCount(<<"GET", "/health", "health_check_failed">>)>>,
          outcome |-> HTTPException(503, "Service temporarily unavailable")]
    ELSE [stmts |-> <<>>, outcome |-> Response(200)]

GetData(fail) ==
    IF fail
    THEN [stmts |-> <<IncErrorCount(<<"GET", "/api/data", "data_fetch_error">>),
                      RecExc("ValueError: Data fetch error"),
                      SetStat("Data not available")>>,
          outcome |-> HTTPException(404, "Data not available")]
    ELSE [stmts |-> <<SetAttr("data.items_count", JInt(3)),
                      SetAttr("processing_time", ProcessingTime)>>,
          outcome |-> Response(200)]

\* `type or random.choice([...])`: an absent or empty parameter is falsy.
ErrorType(type, choice) == IF type \in {Absent, ""} THEN choice ELSE type

\* Lines 269-290: if value_error / elif key_error / else.
ErrorTest(type, choice) ==
    LET error_type == ErrorType(type, choice)
    IN  IF error_type = "value_error"
        THEN [stmts |-> <<IncErrorCount(<<"GET", "/api/error-test", "value_error">>),
                          RecExc("ValueError: This is a simulated value error"),
                          SetStat("Value error")>>,
              outcome |-> HTTPException(500, "This is a simulated value error")]
        ELSE IF error_type = "key_error"
        THEN [stmts |-> <<IncErrorCount(<<"GET", "/api/error-test", "key_error">>),
                          RecExc("KeyError: 'This is a simulated key error'"),
                          SetStat("Key error")>>,
              outcome |-> HTTPException(500, "'This is a simulated key error'")]
        ELSE [stmts |-> <<IncErrorCount(<<"GET", "/api/error-test", "division_error">>),
                          RecExc("ZeroDivisionError: division by zero"),
                          SetStat("Division error")>>,
              outcome |-> HTTPException(500, "division by zero")]

\* call_next(request) runs the endpoint of the request's path: the endpoint
\* opens its span, runs its statements, and leaves the `with` block by
\* returning (a 200 response) or by raising.
Serve(r, name, ep) ==
    LET span == StartSpan(r, "endpoint", name)
        st == Exec(Env(r, span), ep.stmts, "endpoint")
        ended == WithExit(st.span)
    IN  /\ pc[r] = "call_next"
        /\ REQUEST_COUNT' = st.rc
        /\ REQUEST_LATENCY' = st.rl
        /\ ERROR_COUNT' = st.ec
        /\ events' = [events EXCEPT ![r] = st.events]
        /\ endpointSpan' = [endpointSpan EXCEPT ![r] = ended]
        /\ spanQueue' = OnEnd(spanQueue, st.span, ended)
        /\ result' = [result EXCEPT ![r] = ep.outcome]
        /\ pc' = [pc EXCEPT ![r] = "resume"]
        /\ UNCHANGED <<request, final, reqSpan, logVars>>

root(r) ==
    /\ request[r].path = "/"
    /\ \E fail \in BOOLEAN : Serve(r, "root_endpoint", Root(fail))

health(r) ==
    /\ request[r].path = "/health"
    /\ \E fail \in BOOLEAN : Serve(r, "health_check", Health(fail))

get_data(r) ==
    /\ request[r].path = "/api/data"
    /\ \E fail \in BOOLEAN : Serve(r, "get_data_endpoint", GetData(fail))

error_test(r) ==
    /\ request[r].path = "/api/error-test"
    /\ \E choice \in ErrorTypes :
          Serve(r, "error_test_endpoint", ErrorTest(request[r].type, choice))

\* Line 127 with lines 178-190: call_next raises something that is not an
\* HTTPException (a fault anywhere in the downstream chain).
call_next_fault(r) ==
    /\ pc[r] = "call_next"
    /\ \E msg \in FaultMessages : result' = [result EXCEPT ![r] = Fault(msg)]
    /\ pc' = [pc EXCEPT ![r] = "resume"]
    /\ UNCHANGED <<request, final, reqSpan, endpointSpan, spanQueue,
                   REQUEST_COUNT, REQUEST_LATENCY, ERROR_COUNT, events, logVars>>

Next ==
    \E r \in Requests :
        \/ monitor_requests_enter(r)
        \/ root(r)
        \/ health(r)
        \/ get_data(r)
        \/ error_test(r)
        \/ call_next_fault(r)
        \/ monitor_requests_return(r)
        \/ monitor_requests_http_exception(r)
        \/ monitor_requests_exception(r)

Spec == Init /\ [][Next]_vars

\* ------------------------------------------------- logging calls on their own
\* A second specification: log_with_extra and the logger's methods called with
\* any message and any extra-fields mapping, through LokiFormatter.format and
\* write_to_log_file.
ExtraKeys == ReservedFields \cup {"asctime", "user", "trace_id"}
ExtraValues == {JStr("FAKE"), JInt(7)}
ExtraDicts ==
    UNION {[K -> ExtraValues] : K \in {S \in SUBSET ExtraKeys : Cardinality(S) <= MaxExtras}}
LogMessages == {"Request processed", "HTTP Error: Data not available"}

\* One call: the record is made and formatted; the line goes to the log file
\* unless the file cannot be written, which is reported and not raised.
LogCall(level, msg, func, lineno, created, extra, writable) ==
    LET e == Emit(level, msg, func, lineno, created, extra)
    IN  /\ logIn' = [kind |-> "call", level |-> level, msg |-> msg, func |-> func,
                     lineno |-> lineno, created |-> created, extra |-> extra]
        /\ logOut' = [kind |-> e.kind, line |-> e.line,
                      written |-> (e.kind = "line" /\ writable)]
        /\ UNCHANGED pipelineVars

\* Lines 107-114: logger.info with a copy of the extras, or without extras.
log_with_extra ==
    \E msg \in LogMessages, extra_data \in ExtraDicts,
       created \in 1..MaxCreated, writable \in BOOLEAN :
        IF DOMAIN extra_data # {}
        THEN LogCall("INFO", msg, "log_with_extra", 112, created, extra_data, writable)
        ELSE LogCall("INFO", msg, "log_with_extra", 114, created, EmptyDict, writable)

\* Line 175: logger.warning(...), no extras.
logger_warning ==
    \E msg \in LogMessages, created \in 1..MaxCreated, writable \in BOOLEAN :
        LogCall("WARNING", msg, "monitor_requests", 175, created, EmptyDict, writable)

\* Line 189: logger.error(...), no extras.
logger_error ==
    \E msg \in LogMessages, created \in 1..MaxCreated, writable \in BOOLEAN :
        LogCall("ERROR", msg, "monitor_requests", 189, created, EmptyDict, writable)

NextLog == log_with_extra \/ logger_warning \/ logger_error

SpecLog == Init /\ [][NextLog]_vars

\* ================================================================= claims
Done(r) == pc[r] = "done"
\* How many times statement `op` was run for request r, by anyone.
NumOp(r, op) == Cardinality({i \in DOMAIN events[r] : events[r][i].op = op})
\* The events of request r that monitor_requests produced after call_next.
After(r) == {i \in DOMAIN events[r] : events[r][i].who = AfterCallNext}
Rank(kind) == CASE kind = "metric" -> 1 [] kind = "span" -> 2 [] kind = "log" -> 3

\* C1: every request that monitor_requests has finished, whatever its outcome,
\* has exactly one REQUEST_COUNT increment and one REQUEST_LATENCY observation.
C1_OneCountOneLatency ==
    \A r \in Requests :
        Done(r) => /\ NumOp(r, "REQUEST_COUNT.inc") = 1
                   /\ NumOp(r, "REQUEST_LATENCY.observe") = 1

C3_FaultBecomesOpaque500 ==
    \A r \in Requests :
        (Done(r) /\ result[r].kind = "Exception") =>
            /\ final[r].kind = "HTTPException"
            /\ final[r].status = 500
            /\ final[r].detail = "Internal server error"
            /\ final[r].detail # result[r].detail
            /\ reqSpan[r].status = <<"ERROR", result[r].detail>>
            /\ \E i \in After(r) :
                  /\ events[r][i].kind = "log"
                  /\ events[r][i].out["level"] = JStr("ERROR")
                  /\ events[r][i].out["message"] = JStr("Server Error: " \o result[r].detail)

C3_Witness ==
    \E r \in Requests : Done(r) /\ result[r].kind = "Exception"

\* C4: when call_next raises an HTTPException with status S and detail D, the
\* middleware counts it as http_error, marks the span as error, logs a warning
\* and raises that same exception: same S, same D, never a response and never
\* the generic 500.
C4_ClassifiedErrorReraised ==
    \A r \in Requests :
        (Done(r) /\ result[r].kind = "HTTPException") =>
            /\ final[r] = result[r]
            /\ \E i \in After(r) :
                  /\ events[r][i].op = "ERROR_COUNT.inc"
                  /\ events[r][i].arg = <<request[r].method, request[r].path, "http_error">>
            /\ reqSpan[r].status = <<"ERROR", result[r].detail>>
            /\ \E i \in After(r) :
                  /\ events[r][i].kind = "log"
                  /\ events[r][i].out["level"] = JStr("WARNING")

C4_Witness ==
    \E r \in Requests :
        /\ Done(r)
        /\ result[r] = HTTPException(404, "Data not available")

\* C5: a request's span is open while monitor_requests runs and is ended and
\* handed to the span processor exactly once when it has exited, on each exit
\* path; the span of an endpoint that has run, raising or not, likewise.
SpanEndedOnce(span) ==
    /\ span.state = "closed"
    /\ span.ends = 1
    /\ CopiesIn(span.span_id, spanQueue) = 1

C5_SpansClosedExactlyOnce ==
    \A r \in Requests :
        /\ Done(r) => SpanEndedOnce(reqSpan[r])
        /\ pc[r] \in {"call_next", "resume"} =>
              /\ reqSpan[r].state = "open"
              /\ CopiesIn(reqSpan[r].span_id, spanQueue) = 0
        /\ endpointSpan[r].state # "none" => SpanEndedOnce(endpointSpan[r])

C5_Witness ==
    \E r1, r2 \in Requests :
        /\ Done(r1) /\ final[r1].kind = "HTTPException" /\ result[r1].kind = "HTTPException"
        /\ endpointSpan[r1].state = "closed"
        /\ Done(r2) /\ result[r2].kind = "Exception"

\* C6: on each of the three paths after call_next, monitor_requests runs its
\* metric statements first, then its span statements, then its log statement,
\* each path has all three, and the log is emitted while the span is open.
C6_MetricThenSpanThenLog ==
    \A r \in Requests :
        /\ \A i, j \in After(r) :
              i < j => Rank(events[r][i].kind) <= Rank(events[r][j].kind)
        /\ \A i \in After(r) : events[r][i].kind = "log" => events[r][i].spanState = "open"
        /\ Done(r) => \A k \in {"metric", "span", "log"} :
                          \E i \in After(r) : events[r][i].kind = k

C6_Witness ==
    \E r1, r2 \in Requests :
        /\ Done(r1) /\ final[r1].kind = "response"
        /\ Done(r2) /\ final[r2].kind = "HTTPException"

\* C7: the line LokiFormatter.format produces for any logging call keeps the
\* record's own values in the seven reserved fields, whatever extras the
\* caller supplied; an extra with a reserved name is dropped.
C7_ReservedFieldsWin ==
    logIn.kind = "call" =>
        /\ logOut.kind = "line"
        /\ \A k \in ReservedFields :
              logOut.line[k] =
                  ReservedData(StdRecord(logIn.level, logIn.msg, logIn.func,
                                         logIn.lineno, logIn.created))[k]

\* C8: every log record monitor_requests emits for a request, on each of its
\* three paths, has trace_id and span_id fields holding the identifiers of the
\* span it opened for that request.
C8_LogsCarrySpanIds ==
    \A r \in Requests :
        /\ Done(r) => \E i \in After(r) : events[r][i].kind = "log"
        /\ \A i \in After(r) :
              events[r][i].kind = "log" =>
                  /\ {"trace_id", "span_id"} \subseteq DOMAIN events[r][i].out
                  /\ events[r][i].out["trace_id"] = JStr(FormatHex(reqSpan[r].trace_id, TraceIdWidth))
                  /\ events[r][i].out["span_id"] = JStr(FormatHex(reqSpan[r].span_id, SpanIdWidth))

EndpointErrorLabels(r) ==
    {events[r][i].arg : i \in {j \in DOMAIN events[r] :
        events[r][j].who = "endpoint" /\ events[r][j].op = "ERROR_COUNT.inc"}}
NumEndpointErrors(r) ==
    Cardinality({j \in DOMAIN events[r] :
        events[r][j].who = "endpoint" /\ events[r][j].op = "ERROR_COUNT.inc"})

C10_ErrorTestContract ==
    \A r \in Requests :
        (endpointSpan[r].name = "error_test_endpoint") =>
            LET t == request[r].type
            IN  IF t \in ErrorTypes \cup {Absent}
                THEN /\ NumEndpointErrors(r) = 1
                     /\ \E c \in ErrorTypes :
                           /\ t \in ErrorTypes => c = t
                           /\ EndpointErrorLabels(r) = {<<"GET", "/api/error-test", c>>}
                     /\ result[r].kind = "HTTPException"
                     /\ result[r].status = 500
                ELSE /\ NumEndpointErrors(r) = 0
                     /\ EndpointErrorLabels(r) \cap
                            {<<"GET", "/api/error-test", c>> : c \in ErrorTypes} = {}

====
